---- MODULE Spec2Model ----
(***************************************************************************)
(* Riyadlul Huda Treasurer API (backend/main.py): the authentication       *)
(* subsystem (login, /auth/refresh, the bearer dependency                  *)
(* get_current_user, the startup hook seed_admin) and the /summary         *)
(* aggregation over the MongoDB collections user, refreshtoken, santri     *)
(* and pembayaransyariah.                                                  *)
(*                                                                         *)
(* Time is counted in ticks of 1/TicksPerSec second.  A JWT is modelled by *)
(* the triple its compact string is an injective encoding of: the payload, *)
(* the integer exp claim and the key that signed it; equality of tokens is *)
(* equality of their strings.  A MongoDB value carries its BSON type, so   *)
(* that an ObjectId and the string str() makes of it are different values. *)
(***************************************************************************)
EXTENDS Integers, Sequences, FiniteSets, TLC

VARIABLES clock, advances, users, refreshtoken, santri, pembayaransyariah,
          santriNisUnique, seedPc, issued, last

vars == <<clock, advances, users, refreshtoken, santri, pembayaransyariah,
          santriNisUnique, seedPc, issued, last>>

(* ------------------------------ bounds --------------------------------- *)

TicksPerSec == 2
MaxAdvances == 1
MaxLogins == 2
MaxSantri == 2
MaxPembayaran == 2

(* ------------------------- program constants --------------------------- *)

ACCESS_EXPIRES_MIN == 30
REFRESH_EXPIRES_DAYS == 7

JWT_SECRET == "dev-secret-change-me"

\* timedelta(minutes=ACCESS_EXPIRES_MIN), timedelta(days=REFRESH_EXPIRES_DAYS), in ticks
AccessDelta == ACCESS_EXPIRES_MIN * 60 * TicksPerSec
RefreshDelta == REFRESH_EXPIRES_DAYS * 86400 * TicksPerSec

(* --------------------------- BSON / Python values ---------------------- *)

None == [t |-> "None", s |-> ""]
Str(x) == [t |-> "str", s |-> x]
ObjectId(x) == [t |-> "ObjectId", s |-> x]

\* Python's str(): the hex text of an ObjectId, a string unchanged
PyStr(v) == [t |-> "str", s |-> v.s]

\* Python truthiness of an Optional[str]
Truthy(v) == v.t # "None" /\ v.s # ""

\* dict.get(key): None when the key is absent
Get(d, k) == IF k \in DOMAIN d THEN d[k] ELSE None

\* dict.get(key, default)
GetOr(d, k, default) == IF k \in DOMAIN d THEN d[k] ELSE default

\* the hex texts of the ObjectIds the store generates, in order of insertion
OidHex == <<"65a000000000000000000001", "65a000000000000000000002",
            "65a000000000000000000003", "65a000000000000000000004",
            "65a000000000000000000005", "65a000000000000000000006">>
SantriOidHex == <<"65b000000000000000000001", "65b000000000000000000002",
                  "65b000000000000000000003", "65b000000000000000000004">>

\* Collection.find_one({field: value}): the first document, in natural order,
\* whose field equals the value (BSON equality: type and content)
FindOne(coll, field, value) ==
    IF \E i \in 1..Len(coll) : Get(coll[i], field) = value
    THEN coll[CHOOSE i \in 1..Len(coll) :
                  /\ Get(coll[i], field) = value
                  /\ \A j \in 1..(i-1) : Get(coll[j], field) # value]
    ELSE None

\* Collection.find_one({"$or": [{f1: v1}, {f2: v2}]})
FindOneOr(coll, f1, v1, f2, v2) ==
    IF \E i \in 1..Len(coll) : Get(coll[i], f1) = v1 \/ Get(coll[i], f2) = v2
    THEN coll[CHOOSE i \in 1..Len(coll) :
                  /\ (Get(coll[i], f1) = v1 \/ Get(coll[i], f2) = v2)
                  /\ \A j \in 1..(i-1) :
                        Get(coll[j], f1) # v1 /\ Get(coll[j], f2) # v2]
    ELSE None

RECURSIVE Filter(_, _)
Filter(seq, keep) ==
    IF seq = << >> THEN << >>
    ELSE IF Head(seq) \in keep THEN <<Head(seq)>> \o Filter(Tail(seq), keep)
    ELSE Filter(Tail(seq), keep)

Elems(seq) == {seq[i] : i \in 1..Len(seq)}

Found(doc) == doc # None

(* ------------------------------ passwords ------------------------------ *)

\* pwd_context.hash: a salted one-way hash
hash_password(password, salt) == [pw |-> password, salt |-> salt]

\* faulty variant: a verification that accepts any password
verify_password_any(password, password_hash) == TRUE

verify_password(password, password_hash) == password_hash.pw = password

(* -------------------------------- tokens ------------------------------- *)

\* jwt.encode of payload + exp; a datetime exp is encoded as whole seconds
create_token(payload, expires_delta, now) ==
    [payload |-> payload,
     exp |-> (now + expires_delta) \div TicksPerSec,
     key |-> JWT_SECRET]

HTTPError(status, detail) == [status |-> status, detail |-> detail, body |-> None]
OK(body) == [status |-> 200, detail |-> "", body |-> body]

\* faulty variant: jwt.decode with the exp claim not verified
decode_token_no_exp(token, now) ==
    IF token.key # JWT_SECRET THEN HTTPError(401, "Invalid token")
    ELSE OK(token.payload)

\* jwt.decode: signature and structure first, then the exp claim, which has
\* passed once now has reached it
decode_token(token, now) ==
    IF token.key # JWT_SECRET THEN HTTPError(401, "Invalid token")
    ELSE IF token.exp * TicksPerSec <= now THEN HTTPError(401, "Token expired")
    ELSE OK(token.payload)

NoCredentials == [payload |-> None, exp |-> 0, key |-> "<no Authorization header>"]

\* faulty variant: the _id lookup made on the text of the ObjectId, which then
\* finds the subject of any token
get_current_user_str_id(credentials, userColl, now) ==
    IF credentials = NoCredentials THEN HTTPError(401, "Not authenticated")
    ELSE LET decoded == decode_token(credentials, now) IN
    IF decoded.status # 200 THEN decoded
    ELSE LET uid == Get(decoded.body, "uid") IN
    IF ~Truthy(uid) THEN HTTPError(401, "Invalid token payload")
    ELSE IF \E i \in 1..Len(userColl) : PyStr(userColl[i]._id) = uid
    THEN OK(userColl[CHOOSE i \in 1..Len(userColl) :
                        /\ PyStr(userColl[i]._id) = uid
                        /\ \A j \in 1..(i-1) : PyStr(userColl[j]._id) # uid])
    ELSE HTTPError(401, "User not found")

\* faulty variant: no fallback lookup by the username claim
get_current_user_no_fallback(credentials, userColl, now) ==
    IF credentials = NoCredentials THEN HTTPError(401, "Not authenticated")
    ELSE LET decoded == decode_token(credentials, now) IN
    IF decoded.status # 200 THEN decoded
    ELSE LET uid == Get(decoded.body, "uid") IN
    IF ~Truthy(uid) THEN HTTPError(401, "Invalid token payload")
    ELSE LET user == FindOne(userColl, "_id", uid) IN
    IF ~Found(user) THEN HTTPError(401, "User not found")
    ELSE OK(user)

\* the bearer dependency: decode, look the subject up by _id, then by the
\* username claim.  The uid claim is a string; a stored _id is the ObjectId
\* insert_one generated, and find_one compares BSON values, type included.
\* The first find_one of the source (a lookup of an empty document, whose
\* result the next line overwrites) reads nothing the handler uses.
get_current_user(credentials, userColl, now) ==
    IF credentials = NoCredentials THEN HTTPError(401, "Not authenticated")
    ELSE LET decoded == decode_token(credentials, now) IN
    IF decoded.status # 200 THEN decoded
    ELSE LET payload == decoded.body
             uid == Get(payload, "uid") IN
    IF ~Truthy(uid) THEN HTTPError(401, "Invalid token payload")
    ELSE LET byId == FindOne(userColl, "_id", uid)
             username == Get(payload, "username")
             user == IF ~Found(byId) /\ Truthy(username)
                     THEN FindOne(userColl, "username", username)
                     ELSE byId IN
    IF ~Found(user) THEN HTTPError(401, "User not found")
    ELSE OK(user)

(* ------------------------------- /auth/login --------------------------- *)

UserSummary(user) ==
    [username |-> Get(user, "username"), email |-> Get(user, "email"),
     role |-> GetOr(user, "role", Str("admin"))]

\* the response of login, the refreshtoken document it inserts (None: none) and
\* the user document it found
login(username, email, password, userColl, now) ==
    IF ~Truthy(username) /\ ~Truthy(email)
    THEN [resp |-> HTTPError(400, "Provide username or email"), doc |-> None,
          user |-> None]
    ELSE LET user == IF Truthy(username)
                     THEN FindOne(userColl, "username", username)
                     ELSE FindOne(userColl, "email", email) IN
    IF ~Found(user) \/ ~verify_password(password, user.password_hash)
    THEN [resp |-> HTTPError(401, "Invalid credentials"), doc |-> None,
          user |-> None]
    ELSE LET access == create_token([uid |-> PyStr(user._id),
                                     username |-> user.username,
                                     role |-> GetOr(user, "role", Str("admin"))],
                                    AccessDelta, now)
             refresh == create_token([uid |-> PyStr(user._id),
                                      type |-> Str("refresh")], RefreshDelta, now)
         IN [resp |-> OK([access_token |-> access, refresh_token |-> refresh,
                          user |-> UserSummary(user)]),
             doc |-> [user_id |-> PyStr(user._id), token |-> refresh,
                      expires_at |-> now + RefreshDelta, created_at |-> now],
             user |-> user]

(* ------------------------------ /auth/refresh -------------------------- *)

\* faulty variant: the persisted record is not looked up
refresh_token_no_lookup(token, rtColl, now) ==
    LET decoded == decode_token(token, now) IN
    IF decoded.status # 200 THEN decoded
    ELSE IF Get(decoded.body, "type") # Str("refresh")
    THEN HTTPError(400, "Invalid refresh token")
    ELSE OK([access_token |->
                create_token([uid |-> Get(decoded.body, "uid")], AccessDelta, now)])

refresh_token(token, rtColl, now) ==
    LET decoded == decode_token(token, now) IN
    IF decoded.status # 200 THEN decoded
    ELSE LET payload == decoded.body IN
    IF Get(payload, "type") # Str("refresh")
    THEN HTTPError(400, "Invalid refresh token")
    ELSE IF ~Found(FindOne(rtColl, "token", token))
    THEN HTTPError(401, "Refresh token not recognized")
    ELSE OK([access_token |->
                create_token([uid |-> Get(payload, "uid")], AccessDelta, now)])

(* ---------------------------------- /me -------------------------------- *)

me(credentials, userColl, now) ==
    LET user == get_current_user(credentials, userColl, now) IN
    IF user.status # 200 THEN user ELSE OK(UserSummary(user.body))

(* ------------------------- startup: seed_admin ------------------------- *)

\* the server processes started against the one store
Procs == {1, 2}

AdminDoc(userColl, salt) ==
    [_id |-> ObjectId(OidHex[Len(userColl) + 1]),
     username |-> Str("admin"),
     email |-> Str("bendahara@gmail.com"),
     password_hash |-> hash_password("bendahara", salt),
     role |-> Str("admin")]

\* users.find_one({"$or": [{"username": "admin"}, {"email": "bendahara@gmail.com"}]})
FindAdmin(userColl) ==
    FindOneOr(userColl, "username", Str("admin"),
                        "email", Str("bendahara@gmail.com"))

\* create_index([("nis", 1)], unique=True): the build fails, and the exception
\* is swallowed, when two documents already share a nis
NisDistinct(coll) ==
    \A i, j \in 1..Len(coll) : coll[i].nis = coll[j].nis => i = j

\* faulty variant: the index on nis is never built
CreateNisIndex_never(coll, have) == have

CreateNisIndex(coll, have) == have \/ NisDistinct(coll)

\* a server process is serving requests once its startup hook has returned
ServerUp == \E p \in Procs : seedPc[p] = "up"

\* seed_admin runs in every process that starts; the store serialises single
\* operations only, so the lookup and the insert of one run are two steps
\* between which another process may act.

\* seed_admin, first store operation: look the admin up
SeedFind(p) ==
    /\ seedPc[p] = "start"
    /\ seedPc' = [seedPc EXCEPT ![p] = IF Found(FindAdmin(users)) THEN "index"
                                        ELSE "insert"]
    /\ last' = [op |-> "seed_find", req |-> Str("startup"), resp |-> None]
    /\ UNCHANGED <<clock, advances, users, refreshtoken, santri,
                   pembayaransyariah, santriNisUnique, issued>>

\* seed_admin, second store operation: insert the admin it did not find
SeedInsert(p) ==
    /\ seedPc[p] = "insert"
    /\ users' = Append(users, AdminDoc(users, p))
    /\ seedPc' = [seedPc EXCEPT ![p] = "index"]
    /\ last' = [op |-> "seed_insert", req |-> Str("startup"), resp |-> None]
    /\ UNCHANGED <<clock, advances, refreshtoken, santri, pembayaransyariah,
                   santriNisUnique, issued>>

\* seed_admin, the index block; the hook returns and the process serves
SeedIndexes(p) ==
    /\ seedPc[p] = "index"
    /\ santriNisUnique' = CreateNisIndex(santri, santriNisUnique)
    /\ seedPc' = [seedPc EXCEPT ![p] = "up"]
    /\ last' = [op |-> "seed_indexes", req |-> Str("startup"), resp |-> None]
    /\ UNCHANGED <<clock, advances, users, refreshtoken, santri,
                   pembayaransyariah, issued>>

(* ------------------------------ requests ------------------------------- *)

Usernames == {None, Str("admin"), Str("budi")}
Emails == {None, Str("bendahara@gmail.com")}
Passwords == {"bendahara", "rahasia"}

Budi == [_id |-> ObjectId(OidHex[1]),
         username |-> Str("budi"),
         email |-> Str("budi@example.com"),
         password_hash |-> hash_password("rahasia", 0),
         role |-> Str("staff")]

\* tokens a client can present: the ones login handed out, the access token
\* the last /auth/refresh handed out, and ones it makes up
Refreshed ==
    IF last.op = "refresh" /\ last.resp.status = 200
    THEN {last.resp.body.access_token} ELSE {}

HandedTokens ==
    {i.access : i \in issued} \cup {i.refresh : i \in issued} \cup Refreshed

ForgedTokens ==
    { \* signed with the server key, never issued by login
      [payload |-> [uid |-> Str(OidHex[1]), type |-> Str("refresh")],
       exp |-> (clock + RefreshDelta) \div TicksPerSec + 1, key |-> JWT_SECRET],
      \* signed with the server key, no subject
      [payload |-> [role |-> Str("admin")],
       exp |-> (clock + AccessDelta) \div TicksPerSec + 1, key |-> JWT_SECRET],
      \* signed with another key
      [payload |-> [uid |-> Str(OidHex[1]), username |-> Str("admin"),
                    role |-> Str("admin")],
       exp |-> (clock + AccessDelta) \div TicksPerSec + 1, key |-> "attacker-key"],
      [payload |-> [uid |-> Str(OidHex[1]), type |-> Str("refresh")],
       exp |-> 0, key |-> "attacker-key"] }

TokenInputs == HandedTokens \cup ForgedTokens

Login(username, email, password) ==
    /\ ServerUp
    /\ Len(refreshtoken) < MaxLogins
    /\ LET r == login(username, email, password, users, clock) IN
       /\ refreshtoken' = IF Found(r.doc) THEN Append(refreshtoken, r.doc)
                                           ELSE refreshtoken
       /\ issued' = IF r.resp.status = 200
                     THEN issued \cup {[user |-> r.user,
                                        access |-> r.resp.body.access_token,
                                        refresh |-> r.resp.body.refresh_token]}
                     ELSE issued
       /\ last' = [op |-> "login",
                   req |-> [username |-> username, email |-> email,
                            password |-> password],
                   resp |-> r.resp]
    /\ UNCHANGED <<clock, advances, users, santri, pembayaransyariah,
                   santriNisUnique, seedPc>>

\* faulty variant: a refresh that rotates, deleting the record it used
RefreshRotating(token) ==
    /\ ServerUp
    /\ LET r == refresh_token(token, refreshtoken, clock) IN
       /\ last' = [op |-> "refresh", req |-> token, resp |-> r]
       /\ refreshtoken' = IF r.status = 200
                           THEN Filter(refreshtoken,
                                       {d \in Elems(refreshtoken) : d.token # token})
                           ELSE refreshtoken
    /\ UNCHANGED <<clock, advances, users, santri,
                   pembayaransyariah, santriNisUnique, seedPc, issued>>

Refresh(token) ==
    /\ ServerUp
    /\ LET r == refresh_token(token, refreshtoken, clock) IN
       last' = [op |-> "refresh", req |-> token, resp |-> r]
    /\ UNCHANGED <<clock, advances, users, refreshtoken, santri,
                   pembayaransyariah, santriNisUnique, seedPc, issued>>

Me(credentials) ==
    /\ ServerUp
    /\ last' = [op |-> "me", req |-> credentials,
                resp |-> me(credentials, users, clock)]
    /\ UNCHANGED <<clock, advances, users, refreshtoken, santri,
                   pembayaransyariah, santriNisUnique, seedPc, issued>>

\* time passes: a tick, an access-token lifetime, more than a refresh-token
\* lifetime
Durations == {1, AccessDelta, RefreshDelta + 1}

Advance(d) ==
    /\ advances < MaxAdvances
    /\ advances' = advances + 1
    /\ clock' = clock + d
    /\ last' = [op |-> "advance", req |-> Str("clock"), resp |-> None]
    /\ UNCHANGED <<users, refreshtoken, santri, pembayaransyariah,
                   santriNisUnique, seedPc, issued>>

(* ------------------------- POST /santri, /syariah ---------------------- *)

\* insert_one into santri: the unique index on nis, when it exists, makes the
\* store raise DuplicateKeyError, which the handler does not catch
create_santri(credentials, payload, santriColl, nisUnique, userColl, now) ==
    LET user == get_current_user(credentials, userColl, now) IN
    IF user.status # 200 THEN [resp |-> user, coll |-> santriColl]
    ELSE IF nisUnique /\ \E i \in 1..Len(santriColl) : santriColl[i].nis = payload.nis
    THEN [resp |-> HTTPError(500, "DuplicateKeyError"), coll |-> santriColl]
    ELSE LET id == ObjectId(SantriOidHex[Len(santriColl) + 1]) IN
         [resp |-> OK([id |-> PyStr(id)]),
          coll |-> Append(santriColl,
                          [_id |-> id, nis |-> payload.nis,
                           gender |-> payload.gender, asrama |-> payload.asrama,
                           kelas |-> payload.kelas])]

create_syariah(credentials, payload, coll, userColl, now) ==
    LET user == get_current_user(credentials, userColl, now) IN
    IF user.status # 200 THEN [resp |-> user, coll |-> coll]
    ELSE [resp |-> OK([id |-> Str("inserted")]), coll |-> Append(coll, payload)]

(* -------------------------------- /summary ----------------------------- *)

MONTHS == <<"Januari", "Februari", "Maret", "April", "Mei", "Juni",
            "Juli", "Agustus", "September", "Oktober", "November", "Desember">>

month_name(m) == IF 1 <= m /\ m <= Len(MONTHS) THEN MONTHS[m] ELSE ""

RECURSIVE SumNominal(_)
SumNominal(seq) ==
    IF seq = << >> THEN 0 ELSE Head(seq).nominal + SumNominal(Tail(seq))

\* s_filt: an absent or empty filter does not constrain
MatchesSantri(s, gender, asrama, kelas) ==
    /\ (gender # "" => s.gender = gender)
    /\ (asrama # "" => s.asrama = asrama)
    /\ (kelas # "" => s.kelas = kelas)

\* ids = [str(s.get("_id")) for s in collection("santri").find(s_filt)]
SantriIds(santriColl, gender, asrama, kelas) ==
    {PyStr(s._id).s : s \in {x \in Elems(santriColl) :
                                MatchesSantri(x, gender, asrama, kelas)}}

\* sy_filt, as find() applies it to one pembayaransyariah document
MatchesSyFilt(p, tahun, bulan, gender, asrama, kelas, santriColl) ==
    /\ (tahun # 0 => p.tahun = tahun)
    /\ (bulan # 0 => p.bulan = month_name(bulan))
    /\ (gender # "" \/ asrama # "" \/ kelas # "") =>
          LET ids == SantriIds(santriColl, gender, asrama, kelas) IN
          IF ids # {} THEN p.santri_id \in ids ELSE p.santri_id = "__none__"

\* the three payment figures of the report
summary_figures(tahun, bulan, asrama, kelas, gender, santriColl, syColl) ==
    LET pembayaran == Filter(syColl, {p \in Elems(syColl) :
                           MatchesSyFilt(p, tahun, bulan, gender, asrama,
                                         kelas, santriColl)})
        lunas == Filter(pembayaran, {p \in Elems(pembayaran) : p.status = "Lunas"})
        belum == Filter(pembayaran, {p \in Elems(pembayaran) : p.status # "Lunas"})
    IN [pembayaran_syariah_lunas |-> Len(lunas),
        pembayaran_syariah_belum |-> Len(belum),
        jumlah_tunggakan |-> SumNominal(belum)]

summary(credentials, tahun, bulan, asrama, kelas, gender, santriColl, syColl, userColl, now) ==
    LET user == get_current_user(credentials, userColl, now) IN
    IF user.status # 200 THEN user
    ELSE OK(summary_figures(tahun, bulan, asrama, kelas, gender, santriColl, syColl))

Credentials == {NoCredentials} \cup {i.access : i \in issued}

SantriPayloads ==
    [nis : {"2024001", "2024002"}, gender : {"Putra", "Putri"},
     asrama : {"Al-Fatih"}, kelas : {"7A"}]

SyariahPayloads ==
    [santri_id : {SantriOidHex[1], "__none__"}, tahun : {2024},
     bulan : {"Januari"}, rate : {[status |-> "Lunas", nominal |-> 500000],
                                  [status |-> "Belum", nominal |-> 300000]}]

CreateSantri(credentials, payload) ==
    /\ ServerUp
    /\ Len(santri) < MaxSantri
    /\ LET r == create_santri(credentials, payload, santri, santriNisUnique,
                              users, clock) IN
       /\ santri' = r.coll
       /\ last' = [op |-> "create_santri", req |-> payload, resp |-> r.resp]
    /\ UNCHANGED <<clock, advances, users, refreshtoken, pembayaransyariah,
                   santriNisUnique, seedPc, issued>>

CreateSyariah(credentials, payload) ==
    /\ ServerUp
    /\ Len(pembayaransyariah) < MaxPembayaran
    /\ LET doc == [santri_id |-> payload.santri_id, tahun |-> payload.tahun,
                   bulan |-> payload.bulan, nominal |-> payload.rate.nominal,
                   status |-> payload.rate.status]
           r == create_syariah(credentials, doc, pembayaransyariah, users, clock) IN
       /\ pembayaransyariah' = r.coll
       /\ last' = [op |-> "create_syariah", req |-> doc, resp |-> r.resp]
    /\ UNCHANGED <<clock, advances, users, refreshtoken, santri,
                   santriNisUnique, seedPc, issued>>

Summary(credentials, tahun, bulan, gender) ==
    /\ ServerUp
    /\ last' = [op |-> "summary",
                req |-> [tahun |-> tahun, bulan |-> bulan, asrama |-> "",
                         kelas |-> "", gender |-> gender],
                resp |-> summary(credentials, tahun, bulan, "", "", gender,
                                 santri, pembayaransyariah, users, clock)]
    /\ UNCHANGED <<clock, advances, users, refreshtoken, santri,
                   pembayaransyariah, santriNisUnique, seedPc, issued>>

(* ---------------------------- specification ---------------------------- *)

Init ==
    /\ clock = 0
    /\ advances = 0
    /\ users \in {<< >>, <<Budi>>}
    /\ refreshtoken = << >>
    /\ santri = << >>
    /\ pembayaransyariah = << >>
    /\ santriNisUnique = FALSE
    /\ seedPc = [p \in Procs |-> "start"]
    /\ issued = {}
    /\ last = [op |-> "none", req |-> None, resp |-> None]

Next ==
    \/ \E p \in Procs : SeedFind(p)
    \/ \E p \in Procs : SeedInsert(p)
    \/ \E p \in Procs : SeedIndexes(p)
    \/ \E u \in Usernames, e \in Emails, pw \in Passwords : Login(u, e, pw)
    \/ \E t \in TokenInputs : Refresh(t)
    \/ \E c \in TokenInputs \cup {NoCredentials} : Me(c)
    \/ \E d \in Durations : Advance(d)

Spec == Init /\ [][Next]_vars

\* POST /santri between and after the startups of the two processes
NextSantri ==
    \/ \E p \in Procs : SeedFind(p)
    \/ \E p \in Procs : SeedInsert(p)
    \/ \E p \in Procs : SeedIndexes(p)
    \/ \E pw \in Passwords : Login(Str("admin"), None, pw)
    \/ \E c \in Credentials, s \in SantriPayloads : CreateSantri(c, s)

SpecSantri == Init /\ [][NextSantri]_vars

\* the store once both processes have run seed_admin one after the other
InitUp ==
    /\ clock = 0
    /\ advances = 0
    /\ users = <<AdminDoc(<< >>, 1)>>
    /\ refreshtoken = << >>
    /\ santri = << >>
    /\ pembayaransyariah = << >>
    /\ santriNisUnique = CreateNisIndex(<< >>, FALSE)
    /\ seedPc = [p \in Procs |-> "up"]
    /\ issued = {}
    /\ last = [op |-> "none", req |-> None, resp |-> None]

\* the data endpoints and /summary on the running server
NextSummary ==
    \/ \E pw \in Passwords : Login(Str("admin"), None, pw)
    \/ \E c \in Credentials, s \in SantriPayloads : CreateSantri(c, s)
    \/ \E c \in Credentials, s \in SyariahPayloads : CreateSyariah(c, s)
    \/ \E c \in Credentials, y \in {0, 2024}, m \in {0, 1},
          g \in {"", "Putra", "Putri"} : Summary(c, y, m, g)

SpecSummary == InitUp /\ [][NextSummary]_vars

(* ======================================================================= *)
(*                               properties                                *)
(* ======================================================================= *)

Unexpired(token) == decode_token(token, clock).status = 200

HasRecord(token, rtColl) == \E k \in 1..Len(rtColl) : rtColl[k].token = token

\* C1: token classes are not interchangeable.  Every refresh token a login
\* handed out is rejected by get_current_user, and every access token a login
\* handed out is rejected by /auth/refresh, which mints nothing for it; this
\* holds at every later instant and for every later content of the store.
C1_TokenClassesNotInterchangeable ==
    /\ \A i \in issued :
          /\ get_current_user(i.refresh, users, clock).status # 200
          /\ refresh_token(i.access, refreshtoken, clock).status # 200
    /\ (last.op = "me" /\ last.req \in {i.refresh : i \in issued})
          => last.resp.status = 401
    /\ (last.op = "refresh" /\ last.req \in {i.access : i \in issued})
          => last.resp.status \in {400, 401} /\ last.resp.body = None

\* C1 witness: an unexpired refresh token of a login was presented as the
\* bearer credential of GET /me and was turned away
C1_Witness ==
    /\ last.op = "me"
    /\ last.req \in {i.refresh : i \in issued}
    /\ Unexpired(last.req)
    /\ last.resp.status = 401

\* C2: round trip.  The unexpired access token of a successful login of user U
\* resolves, through get_current_user, to exactly the stored document of U.
C2_AccessTokenRoundTrip ==
    /\ \A i \in issued :
          Unexpired(i.access) =>
             /\ get_current_user(i.access, users, clock) = OK(i.user)
             /\ i.user \in Elems(users)
    /\ \A i \in issued :
          (last.op = "me" /\ last.req = i.access /\ Unexpired(i.access))
             => last.resp = OK(UserSummary(i.user))

\* C2 witness: GET /me answered a login's access token with its user
C2_Witness ==
    /\ last.op = "me"
    /\ last.req \in {i.access : i \in issued}
    /\ last.resp.status = 200
    /\ Len(users) > 1

Identified(req, u) ==
    IF Truthy(req.username) THEN u.username = req.username
    ELSE Truthy(req.email) /\ u.email = req.email

\* C4: login succeeds, with the summary of the matching user, exactly when the
\* identifier (username if given, else email) finds a stored user whose hash
\* matches the password; an unknown identifier and a wrong password both get
\* the one response 401 "Invalid credentials"; a failed login hands out no
\* token and adds no refreshtoken document.
C4_LoginCredentials ==
    [][last'.op = "login" =>
        LET req == last'.req
            resp == last'.resp
            matching == {u \in Elems(users) :
                           Identified(req, u) /\ u.password_hash.pw = req.password}
        IN /\ resp.status = 200 <=> matching # {}
           /\ resp.status = 200 =>
                 \E u \in matching : resp.body.user = UserSummary(u)
           /\ (resp.status # 200 /\ (Truthy(req.username) \/ Truthy(req.email)))
                 => resp = HTTPError(401, "Invalid credentials")
           /\ resp.status # 200 =>
                 /\ resp.body = None
                 /\ refreshtoken' = refreshtoken
                 /\ issued' = issued]_vars

\* C4 witness: a login with the username of a stored user and a wrong password
C4_Witness ==
    /\ last.op = "login"
    /\ \E u \in Elems(users) : Identified(last.req, u)
    /\ last.resp = HTTPError(401, "Invalid credentials")

\* C5: refresh tokens are neither rotated nor revoked.  After every step each
\* unexpired refresh token a login handed out is accepted by /auth/refresh; a
\* refresh leaves the refreshtoken collection as it was; a successful login
\* appends one document and keeps the earlier ones.
C5_NoRotationNoRevocation ==
    [][/\ \A i \in issued' :
             decode_token(i.refresh, clock').status = 200
                => refresh_token(i.refresh, refreshtoken', clock').status = 200
       /\ last'.op = "refresh" => refreshtoken' = refreshtoken
       /\ (last'.op = "login" /\ last'.resp.status = 200) =>
             /\ Len(refreshtoken') = Len(refreshtoken) + 1
             /\ SubSeq(refreshtoken', 1, Len(refreshtoken)) = refreshtoken
             /\ refreshtoken'[Len(refreshtoken')].token
                   = last'.resp.body.refresh_token]_vars

\* C5 witness: an earlier login's refresh token was refreshed with success
\* after the same user logged in again
C5_Witness ==
    /\ last.op = "refresh"
    /\ last.resp.status = 200
    /\ Len(refreshtoken) = 2
    /\ refreshtoken[1].token = last.req
    /\ refreshtoken[2].token # last.req
    /\ refreshtoken[2].user_id = refreshtoken[1].user_id

\* C6: a token issued by login decodes, before the instant of its exp claim,
\* to the claims it was issued with; after that instant decode_token fails
\* with 401 "Token expired"; a token with a bad signature fails with the
\* other error, 401 "Invalid token", expired or not; an expired refresh token
\* is rejected by /auth/refresh although its document is still stored.
C6_DecodeByExpiry ==
    /\ \A i \in issued :
          /\ \A t \in {i.access, i.refresh} :
                /\ clock < t.exp * TicksPerSec
                      => decode_token(t, clock) = OK(t.payload)
                /\ clock > t.exp * TicksPerSec
                      => decode_token(t, clock) = HTTPError(401, "Token expired")
          /\ i.access.payload = [uid |-> PyStr(i.user._id),
                                  username |-> i.user.username,
                                  role |-> i.user.role]
          /\ i.refresh.payload = [uid |-> PyStr(i.user._id), type |-> Str("refresh")]
          /\ clock > i.refresh.exp * TicksPerSec =>
                /\ HasRecord(i.refresh, refreshtoken)
                /\ refresh_token(i.refresh, refreshtoken, clock)
                      = HTTPError(401, "Token expired")
    /\ \A t \in TokenInputs :
          t.key # JWT_SECRET => decode_token(t, clock) = HTTPError(401, "Invalid token")
    /\ (last.op = "refresh" /\ last.req \in {i.refresh : i \in issued}
          /\ clock > last.req.exp * TicksPerSec)
          => last.resp = HTTPError(401, "Token expired")

\* C6 witness: /auth/refresh turned away an expired refresh token whose
\* document is still in the store
C6_Witness ==
    /\ last.op = "refresh"
    /\ last.req \in {i.refresh : i \in issued}
    /\ HasRecord(last.req, refreshtoken)
    /\ clock > last.req.exp * TicksPerSec
    /\ last.resp = HTTPError(401, "Token expired")

Genders == {"", "Putra", "Putri"}
Asramas == {"", "Al-Fatih", "Al-Azhar"}
Kelases == {"", "7A"}
Tahuns == {0, 2024, 2025}
Bulans == {0, 1, 2, 13}

\* the payments of the santri matching the filters, narrowed by year and month
Restricted(tahun, bulan, asrama, kelas, gender) ==
    Filter(pembayaransyariah,
           {p \in Elems(pembayaransyariah) :
              /\ \E s \in Elems(santri) :
                    /\ MatchesSantri(s, gender, asrama, kelas)
                    /\ p.santri_id = PyStr(s._id).s
              /\ (tahun # 0 => p.tahun = tahun)
              /\ (bulan # 0 => p.bulan = month_name(bulan))})

\* C8: with a gender, dormitory or class filter the three payment figures are
\* those of exactly the payments whose santri_id is the id of a matching
\* santri (narrowed by year and month); with no matching santri all three
\* are 0, whatever the store holds.
C8_FilteredFigures ==
    \A y \in Tahuns, m \in Bulans, a \in Asramas, k \in Kelases, g \in Genders :
       (g # "" \/ a # "" \/ k # "") =>
          LET r == Restricted(y, m, a, k, g)
              belum == Filter(r, {p \in Elems(r) : p.status # "Lunas"})
          IN summary_figures(y, m, a, k, g, santri, pembayaransyariah)
               = [pembayaran_syariah_lunas |-> Len(r) - Len(belum),
                  pembayaran_syariah_belum |-> Len(belum),
                  jumlah_tunggakan |-> SumNominal(belum)]

\* C9: the access token /auth/refresh mints carries the subject of the refresh
\* token and the username and role claims of an access token, and, unexpired,
\* resolves through get_current_user to the user of that subject.
C9_RefreshedAccessToken ==
    (last.op = "refresh" /\ last.resp.status = 200) =>
       LET token == last.resp.body.access_token IN
       /\ Get(token.payload, "uid") = Get(last.req.payload, "uid")
       /\ {"username", "role"} \subseteq DOMAIN token.payload
       /\ \E u \in Elems(users) :
             /\ PyStr(u._id) = Get(token.payload, "uid")
             /\ get_current_user(token, users, clock) = OK(u)

\* C10: the default admin is created once: whatever the number and the
\* interleaving of seed_admin runs, at most one user is named "admin".
C10_OneAdmin ==
    Cardinality({k \in 1..Len(users) : users[k].username = Str("admin")}) <= 1

====
